---- MODULE Spec2Model ----
(***************************************************************************)
(* Model of the transcript acquisition pipeline of                         *)
(* src/app/api/transcript/route.ts: the POST handler, the strategy chain    *)
(* fetchYouTubeTranscript with its three strategies, the caption parsers    *)
(* and the identifier extractor; and of the client in                      *)
(* src/components/features/URLInput.tsx: the URL form and the hook          *)
(* useTranscript.                                                           *)
(*                                                                          *)
(* Spec is one request from its arrival to its response; LiveSpec is Spec   *)
(* with a timer that fires. CallSpec is one direct call of one of the       *)
(* functions on an input of a bounded set; ParserSpec is a sequence of      *)
(* direct calls of the two parsers.                                         *)
(*                                                                          *)
(* Conventions.                                                             *)
(*  - A JavaScript string is a sequence of one-character strings.           *)
(*  - A JavaScript number is an integer count of milliseconds (1.5 s is     *)
(*    1500); NaN is the distinguished value NaN.                            *)
(*  - undefined / a missing JSON field is the empty sequence <<>>, a        *)
(*    present value v is <<v>>.                                             *)
(***************************************************************************)
EXTENDS Integers, Sequences, FiniteSets, TLC

\* ------------------------------------------------------------------ strings

Absent == <<>>
Some(v) == <<v>>
IsAbsent(o) == Len(o) = 0
Val(o) == o[1]

\* s.startsWith(lit) at 1-based position p.
MatchesAt(s, p, lit) ==
  /\ p >= 1
  /\ p + Len(lit) - 1 <= Len(s)
  /\ \A k \in 1..Len(lit) : s[p + k - 1] = lit[k]

\* The longest run of characters outside `stop` that starts at position p.
RECURSIVE RunFrom(_, _, _)
RunFrom(s, p, stop) ==
  IF p > Len(s) \/ s[p] \in stop THEN <<>>
  ELSE <<s[p]>> \o RunFrom(s, p + 1, stop)

\* String literals of the program, spelled out character by character.
HTTPS == <<"h","t","t","p","s",":","/","/">>
HTTP == <<"h","t","t","p",":","/","/">>
WWW == <<"w","w","w",".">>
YT_WATCH == <<"y","o","u","t","u","b","e",".","c","o","m","/","w","a","t","c","h","?","v","=">>
YT_SHORT == <<"y","o","u","t","u",".","b","e","/">>
YT_EMBED == <<"y","o","u","t","u","b","e",".","c","o","m","/","e","m","b","e","d","/">>
YT_V == <<"y","o","u","t","u","b","e",".","c","o","m","/","v","/">>
EXAMPLE == <<"e","x","a","m","p","l","e",".","c","o","m","/">>
NOT_A_URL == <<"n","o","t"," ","a"," ","u","r","l">>

\* ------------------------------------------------------- extractVideoId

\* One pattern of extractVideoId: the literal that must occur (the optional
\* scheme and www. prefixes of the regular expression match the empty string,
\* so they never decide whether or where the capture group matches) and the
\* characters the capture group [^...]+ excludes.
patterns ==
  << [lit |-> YT_WATCH, stop |-> {"&"}],
     [lit |-> YT_SHORT, stop |-> {"?"}],
     [lit |-> YT_EMBED, stop |-> {"?"}],
     [lit |-> YT_V,     stop |-> {"?"}] >>

\* url.match(pattern): the positions where the literal occurs followed by at
\* least one character of the capture class.
MatchStarts(url, pat) ==
  { p \in 1..Len(url) :
      /\ MatchesAt(url, p, pat.lit)
      /\ p + Len(pat.lit) <= Len(url)
      /\ url[p + Len(pat.lit)] \notin pat.stop }

\* match[1] of the leftmost match, or Absent when the pattern does not match.
PatternCapture(url, pat) ==
  LET starts == MatchStarts(url, pat) IN
  IF starts = {} THEN Absent
  ELSE LET p == CHOOSE q \in starts : \A r \in starts : q <= r
       IN Some(RunFrom(url, p + Len(pat.lit), pat.stop))

RECURSIVE FirstCapture(_, _)
FirstCapture(url, k) ==
  IF k > Len(patterns) THEN Absent
  ELSE LET m == PatternCapture(url, patterns[k]) IN
       IF ~IsAbsent(m) THEN m ELSE FirstCapture(url, k + 1)

\* extractVideoId that takes the whole string for the id when no pattern
\* matches.
extractVideoId_Fallback(url) ==
  IF IsAbsent(FirstCapture(url, 1)) THEN Some(url) ELSE FirstCapture(url, 1)

\* extractVideoId(url): Some(id), or Absent for null.
extractVideoId(url) == FirstCapture(url, 1)

\* requestSchema's z.string().url(): the string parses as an absolute URL,
\* which needs a scheme; a host may not contain a space.
IsWellFormedUrl(url) ==
  \/ /\ MatchesAt(url, 1, HTTPS)
     /\ Len(url) > Len(HTTPS)
     /\ url[Len(HTTPS) + 1] # " "
  \/ /\ MatchesAt(url, 1, HTTP)
     /\ Len(url) > Len(HTTP)
     /\ url[Len(HTTP) + 1] # " "

\* ------------------------------------------------------------------ numbers

\* JavaScript's NaN: a value outside every range of times the model uses.
NaN == 0 - 1000000
IsNaN(x) == x = NaN

\* n seconds as a number of the model (milliseconds).
Sec(n) == n * 1000

\* a + b, a * k and Math.ceil(a) (to a whole second) on numbers.
Plus(a, b) == IF IsNaN(a) \/ IsNaN(b) THEN NaN ELSE a + b
Times(a, k) == IF IsNaN(a) THEN NaN ELSE a * k
Ceil(a) ==
  IF IsNaN(a) THEN NaN
  ELSE IF a % 1000 = 0 THEN a ELSE a - (a % 1000) + 1000

Digits == {"0","1","2","3","4","5","6","7","8","9"}
DigitVal(c) ==
  CASE c = "0" -> 0 [] c = "1" -> 1 [] c = "2" -> 2 [] c = "3" -> 3
    [] c = "4" -> 4 [] c = "5" -> 5 [] c = "6" -> 6 [] c = "7" -> 7
    [] c = "8" -> 8 [] c = "9" -> 9

\* The characters String.prototype.trim and the numeric parsers skip.
WhiteSpace == {" ", "\t", "\r", "\n"}

RECURSIVE SkipSpace(_)
\* s without its leading white space.
SkipSpace(s) ==
  IF Len(s) > 0 /\ Head(s) \in WhiteSpace THEN SkipSpace(Tail(s)) ELSE s

RECURSIVE DropTrailingSpace(_)
DropTrailingSpace(s) ==
  IF Len(s) > 0 /\ s[Len(s)] \in WhiteSpace
  THEN DropTrailingSpace(SubSeq(s, 1, Len(s) - 1)) ELSE s

\* s.trim()
Trim(s) == DropTrailingSpace(SkipSpace(s))

RECURSIVE DigitsValue(_, _)
\* The value of a run of digits, continuing from acc.
DigitsValue(ds, acc) ==
  IF Len(ds) = 0 THEN acc
  ELSE DigitsValue(Tail(ds), acc * 10 + DigitVal(Head(ds)))

\* The first three fractional digits as milliseconds (further digits are below
\* the resolution of the model's numbers).
FractionMs(ds) ==
  LET d(k) == IF k <= Len(ds) THEN DigitVal(ds[k]) ELSE 0
  IN d(1) * 100 + d(2) * 10 + d(3)

\* parseInt(str): the leading (signed) run of digits after white space, as a
\* count of units; NaN when there is none.
parseInt(str) ==
  LET t == SkipSpace(str)
      neg == Len(t) > 0 /\ Head(t) = "-"
      u == IF Len(t) > 0 /\ Head(t) \in {"-", "+"} THEN Tail(t) ELSE t
      ds == RunFrom(u, 1, {c \in {u[k] : k \in 1..Len(u)} : c \notin Digits})
  IN IF Len(ds) = 0 THEN NaN
     ELSE IF neg THEN 0 - DigitsValue(ds, 0) ELSE DigitsValue(ds, 0)

\* parseFloat(str): the leading decimal literal after white space, in
\* milliseconds; NaN when there is none.
parseFloat(str) ==
  LET t == SkipSpace(str)
      neg == Len(t) > 0 /\ Head(t) = "-"
      u == IF Len(t) > 0 /\ Head(t) \in {"-", "+"} THEN Tail(t) ELSE t
      nonDigit == {c \in {u[k] : k \in 1..Len(u)} : c \notin Digits}
      ip == RunFrom(u, 1, nonDigit)
      hasDot == Len(u) > Len(ip) /\ u[Len(ip) + 1] = "."
      fp == IF hasDot THEN RunFrom(u, Len(ip) + 2, nonDigit) ELSE <<>>
      mag == DigitsValue(ip, 0) * 1000 + FractionMs(fp)
  IN IF Len(ip) = 0 /\ Len(fp) = 0 THEN NaN
     ELSE IF neg THEN 0 - mag ELSE mag

\* ------------------------------------------------------------ split, replace

\* The least position >= p where lit occurs in s, or 0.
RECURSIVE IndexOf(_, _, _)
IndexOf(s, lit, p) ==
  IF p + Len(lit) - 1 > Len(s) THEN 0
  ELSE IF MatchesAt(s, p, lit) THEN p
  ELSE IndexOf(s, lit, p + 1)

\* s.includes(lit)
Includes(s, lit) == IndexOf(s, lit, 1) # 0

RECURSIVE Split(_, _)
\* s.split(sep), sep a non-empty string.
Split(s, sep) ==
  LET p == IndexOf(s, sep, 1) IN
  IF p = 0 THEN <<s>>
  ELSE <<SubSeq(s, 1, p - 1)>> \o Split(SubSeq(s, p + Len(sep), Len(s)), sep)

RECURSIVE ReplaceAll(_, _, _)
\* s.replace(/lit/g, by): every occurrence, left to right, without rescanning
\* the replacement.
ReplaceAll(s, lit, by) ==
  LET p == IndexOf(s, lit, 1) IN
  IF p = 0 THEN s
  ELSE SubSeq(s, 1, p - 1) \o by
       \o ReplaceAll(SubSeq(s, p + Len(lit), Len(s)), lit, by)

ARROW == <<"-","-",">">>
COLON == <<":">>
NEWLINE == <<"\n">>

RECURSIVE String(_)
\* String(n) for a natural number: its decimal digits.
String(n) ==
  LET d == CHOOSE c \in Digits : DigitVal(c) = n % 10 IN
  IF n < 10 THEN <<d>> ELSE String(n \div 10) \o <<d>>

\* --------------------------------------------------------------- parseVTT

\* A segment of a transcript.
Segment(id, start, end, text) ==
  [id |-> id, start |-> start, end |-> end, text |-> text]

\* parseVTTTime that weighs the hours like minutes (60 for 3600).
parseVTTTime_HoursAsMinutes(timeStr) ==
  LET parts == Split(timeStr, COLON) IN
  IF Len(parts) = 3
  THEN Plus(Plus(Times(parseInt(parts[1]), 60 * 1000),
                 Times(parseInt(parts[2]), 60 * 1000)),
            parseFloat(parts[3]))
  ELSE IF Len(parts) = 2
  THEN Plus(Times(parseInt(parts[1]), 60 * 1000), parseFloat(parts[2]))
  ELSE 0

\* parseVTTTime(timeStr)
parseVTTTime(timeStr) ==
  LET parts == Split(timeStr, COLON) IN
  IF Len(parts) = 3
  THEN Plus(Plus(Times(parseInt(parts[1]), 3600 * 1000),
                 Times(parseInt(parts[2]), 60 * 1000)),
            parseFloat(parts[3]))
  ELSE IF Len(parts) = 2
  THEN Plus(Times(parseInt(parts[1]), 60 * 1000), parseFloat(parts[2]))
  ELSE 0

RECURSIVE SkipHeader(_, _)
\* The first loop of parseVTT: the index of the first line with an arrow.
SkipHeader(lines, i) ==
  IF i <= Len(lines) /\ ~Includes(lines[i], ARROW)
  THEN SkipHeader(lines, i + 1) ELSE i

RECURSIVE CueText(_, _, _)
\* The inner loop of parseVTT from line i: the accumulated text and the index
\* of the line that ended the cue.
CueText(lines, i, text) ==
  IF i <= Len(lines) /\ Trim(lines[i]) # <<>>
  THEN CueText(lines, i + 1, text \o Trim(lines[i]) \o <<" ">>)
  ELSE [text |-> text, i |-> i]

RECURSIVE VTTLoop(_, _, _)
\* The main loop of parseVTT; the ids are the emission ordinals (index++).
VTTLoop(lines, i, segments) ==
  IF i > Len(lines) THEN segments
  ELSE IF Includes(lines[i], ARROW)
  THEN LET times == Split(lines[i], ARROW)
           start == parseVTTTime(Trim(times[1]))
           end == parseVTTTime(Trim(times[2]))
           cue == CueText(lines, i + 1, <<>>)
       IN IF Trim(cue.text) # <<>>
          THEN VTTLoop(lines, cue.i + 1,
                 Append(segments,
                        Segment(String(Len(segments) + 1), start, end,
                                Trim(cue.text))))
          ELSE VTTLoop(lines, cue.i + 1, segments)
  ELSE VTTLoop(lines, i + 1, segments)

\* parseVTT(vttText)
parseVTT(vttText) ==
  LET lines == Split(vttText, NEWLINE)
  IN VTTLoop(lines, SkipHeader(lines, 1), <<>>)

\* ------------------------------------------------------- parseTranscriptXML

XML_OPEN == <<"<","t","e","x","t"," ","s","t","a","r","t","=","\"">>
XML_DUR == <<"\""," ","d","u","r","=","\"">>
XML_CLOSE == <<"<","/","t","e","x","t",">">>
AMP == <<"&","a","m","p",";">>
LT == <<"&","l","t",";">>
GT == <<"&","g","t",";">>
QUOT == <<"&","q","u","o","t",";">>
APOS == <<"&","#","3","9",";">>

\* textRegex tried at position p:
\* <text start="([^"]+)" dur="([^"]+)"[^>]*>([^<]+)<\/text>
\* Every class is closed by a character it excludes, so the greedy runs are
\* the only candidates. ok, the three groups and the position after the match.
TextMatchAt(s, p) ==
  LET a == RunFrom(s, p + Len(XML_OPEN), {"\""})
      q1 == p + Len(XML_OPEN) + Len(a)
      b == RunFrom(s, q1 + Len(XML_DUR), {"\""})
      q2 == q1 + Len(XML_DUR) + Len(b)
      c == RunFrom(s, q2 + 1, {">"})
      q3 == q2 + 1 + Len(c)
      t == RunFrom(s, q3 + 1, {"<"})
      q4 == q3 + 1 + Len(t)
      ok == /\ MatchesAt(s, p, XML_OPEN)
            /\ Len(a) > 0
            /\ MatchesAt(s, q1, XML_DUR)
            /\ Len(b) > 0
            /\ MatchesAt(s, q2, <<"\"">>)
            /\ MatchesAt(s, q3, <<">">>)
            /\ Len(t) > 0
            /\ MatchesAt(s, q4, XML_CLOSE)
  IN [ok |-> ok, g1 |-> a, g2 |-> b, g3 |-> t, next |-> q4 + Len(XML_CLOSE)]

RECURSIVE TextExec(_, _)
\* textRegex.exec(xmlText) from lastIndex p: the leftmost match at or after p,
\* or a record with ok = FALSE for null.
TextExec(s, p) ==
  IF p > Len(s) THEN [ok |-> FALSE]
  ELSE LET m == TextMatchAt(s, p) IN
       IF m.ok THEN m ELSE TextExec(s, p + 1)

\* The replace chain of parseTranscriptXML, in the order of the code.
Unescape(raw) ==
  Trim(ReplaceAll(ReplaceAll(ReplaceAll(ReplaceAll(ReplaceAll(ReplaceAll(
    raw, AMP, <<"&">>), LT, <<"<">>), GT, <<">">>), QUOT, <<"\"">>),
    APOS, <<"'">>), NEWLINE, <<" ">>))

RECURSIVE XMLLoop(_, _, _)
\* The while loop of parseTranscriptXML.
XMLLoop(s, p, segments) ==
  LET m == TextExec(s, p) IN
  IF ~m.ok THEN segments
  ELSE LET start == parseFloat(m.g1)
           duration == parseFloat(m.g2)
       IN XMLLoop(s, m.next,
            Append(segments,
                   Segment(String(Len(segments) + 1), start,
                           Plus(start, duration), Unescape(m.g3))))

\* parseTranscriptXML(xmlText)
parseTranscriptXML(xmlText) == XMLLoop(xmlText, 1, <<>>)

\* ------------------------------------------- proxy response normalisation

\* a || b for an optional JSON number a: a when it is present and truthy
\* (neither 0 nor NaN), else b.
NumOr(a, b) ==
  IF ~IsAbsent(a) /\ Val(a) # 0 /\ ~IsNaN(Val(a)) THEN Val(a) ELSE b

\* The truthiness of an optional string: present and non-empty.
StrTruthy(a) == ~IsAbsent(a) /\ Len(Val(a)) > 0

\* a || b for an optional string a.
StrOr(a, b) == IF StrTruthy(a) THEN Val(a) ELSE b

\* item.start as an operand of +: undefined + n is NaN.
NumOrNaN(a) == IF IsAbsent(a) THEN NaN ELSE Val(a)

\* NormalizeEvent with the array index for the id (String(index) for
\* String(index + 1) in the code).
NormalizeEvent_ZeroBased(item, index) ==
  LET startOrOffset == NumOr(item.start, NumOr(item.offset, 0)) IN
  Segment(String(index - 1),
          startOrOffset,
          NumOr(item.end,
                Plus(startOrOffset, NumOr(item.duration, NumOr(item.dur, 0)))),
          StrOr(item.text, StrOr(item.content, <<>>)))

\* The mapping of one item of an array or data.transcript response.
NormalizeEvent(item, index) ==
  LET startOrOffset == NumOr(item.start, NumOr(item.offset, 0)) IN
  Segment(String(index),
          startOrOffset,
          NumOr(item.end,
                Plus(startOrOffset, NumOr(item.duration, NumOr(item.dur, 0)))),
          StrOr(item.text, StrOr(item.content, <<>>)))

\* The mapping of one item of a data.segments response.
NormalizeSegment(item, index) ==
  Segment(String(index),
          NumOr(item.start, 0),
          NumOr(item.end,
                Plus(NumOrNaN(item.start), NumOr(item.duration, 0))),
          StrOr(item.text, <<>>))

\* The adaptive normalisation of a proxy service's JSON: the segments and the
\* title. data.isArray tells Array.isArray(data); data.transcript and
\* data.segments are the optional array fields.
NormalizeProxy(data, defaultTitle) ==
  IF data.isArray
  THEN [segments |-> [k \in 1..Len(data.items) |->
                        NormalizeEvent(data.items[k], k)],
        title |-> defaultTitle]
  ELSE IF ~IsAbsent(data.transcript)
  THEN [segments |-> [k \in 1..Len(Val(data.transcript)) |->
                        NormalizeEvent(Val(data.transcript)[k], k)],
        title |-> StrOr(data.title, defaultTitle)]
  ELSE IF ~IsAbsent(data.segments)
  THEN [segments |-> [k \in 1..Len(Val(data.segments)) |->
                        NormalizeSegment(Val(data.segments)[k], k)],
        title |-> StrOr(data.title, defaultTitle)]
  ELSE [segments |-> <<>>, title |-> defaultTitle]

\* ------------------------------------------------------------- transcripts

JA == <<"j","a">>
EN == <<"e","n">>
AUTO == <<"a","u","t","o">>

\* A Transcript (the id and the timestamps, which come from the clock, are
\* left out).
Transcript(videoId, title, duration, language, segments) ==
  [videoId |-> videoId, title |-> title, duration |-> duration,
   language |-> language, segments |-> segments]

\* `Video ${videoId}`
DefaultTitle(videoId) == <<"V","i","d","e","o"," ">> \o videoId

\* The title prefix of the sample transcript, "[kaihatsu mode] sanpuru douga "
\* in Japanese script, kept as one unit.
SAMPLE_TITLE == <<"[dev-mode] sample-video ">>

\* The five sample texts, one unit per text (Japanese, then English).
SampleTextsJa ==
  << <<"ja:sample-1">>, <<"ja:sample-2">>, <<"ja:sample-3">>,
     <<"ja:sample-4">>, <<"ja:sample-5">> >>
SampleTextsEn ==
  << <<"en:sample-1">>, <<"en:sample-2">>, <<"en:sample-3">>,
     <<"en:sample-4">>, <<"en:sample-5">> >>

\* The start and end of the five sample segments, in seconds.
SampleTimes == << <<0, 3>>, <<3, 7>>, <<7, 10>>, <<10, 14>>, <<14, 17>> >>

\* generateSampleTranscript with an English list that lost its last segment.
generateSampleTranscript_Short(videoId, languageCode) ==
  LET isJapanese == ~StrTruthy(languageCode) \/ Val(languageCode) = JA
      texts == IF isJapanese THEN SampleTextsJa ELSE SampleTextsEn
      n == IF isJapanese THEN 5 ELSE 4
      segments == [k \in 1..n |->
                     Segment(String(k), Sec(SampleTimes[k][1]),
                             Sec(SampleTimes[k][2]), texts[k])]
  IN Transcript(videoId, SAMPLE_TITLE \o videoId, Sec(SampleTimes[n][2]),
                StrOr(languageCode, JA), segments)

\* generateSampleTranscript(videoId, languageCode)
generateSampleTranscript(videoId, languageCode) ==
  LET isJapanese == ~StrTruthy(languageCode) \/ Val(languageCode) = JA
      texts == IF isJapanese THEN SampleTextsJa ELSE SampleTextsEn
      segments == [k \in 1..5 |->
                     Segment(String(k), Sec(SampleTimes[k][1]),
                             Sec(SampleTimes[k][2]), texts[k])]
  IN Transcript(videoId, SAMPLE_TITLE \o videoId, Sec(17),
                StrOr(languageCode, JA),
                segments)

\* ------------------------------------------------------- values and errors

\* A resolved promise / a returned value, and a rejected promise / a thrown
\* error with its class and message.
Ok(v) == [ok |-> TRUE, value |-> v]
Thrown(class, message) == [ok |-> FALSE, class |-> class, message |-> message]

\* Messages are sequences of phrases; the two phrases the POST handler looks
\* for are units of their own ("taimuauto" is the katakana word for timeout,
\* "jimaku ga sonzai shinai" reads "captions do not exist").
TIMEOUT_PHRASE == <<"taimuauto">>
NO_CAPTIONS_PHRASE == <<"jimaku ga sonzai shinai">>
TimeoutMessage == <<"rikuesuto ga ">> \o TIMEOUT_PHRASE \o <<" shimashita">>
NoCaptionsMessage ==
  <<"jimaku no shutoku ni shippai shimashita. kono douga ni wa ">>
  \o NO_CAPTIONS_PHRASE \o <<" ka, shutoku dekinai kanousei ga arimasu.">>

\* The error thrown when everything failed (lines 53 and 385).
NoCaptionsError == Thrown("Error", NoCaptionsMessage)

\* What a fetch of the upstream can end in besides a usable body.
NetworkError == Thrown("TypeError", <<"fetch failed">>)

\* ---------------------------------------------------------- track selection

\* Array.find over the sequence of the callback's results: the least index
\* whose result is TRUE, or 0.
FindIndex(hits) ==
  LET ks == {k \in 1..Len(hits) : hits[k]} IN
  IF ks = {} THEN 0 ELSE CHOOSE k \in ks : \A j \in ks : k <= j

\* code === languageCode || code?.startsWith(languageCode), for an optional
\* code and a truthy languageCode.
LanguageMatches(code, languageCode) ==
  /\ ~IsAbsent(code)
  /\ MatchesAt(Val(code), 1, languageCode)

\* The selection of fetchViaCustomAPI (lines 81-89) and, with languageCode
\* for code, of fetchViaDirectScraping (lines 207-216): the index of the
\* selected entry of a non-empty list.
SelectIndex(codes, languageCode) ==
  IF StrTruthy(languageCode)
  THEN LET k == FindIndex([j \in 1..Len(codes) |->
                             LanguageMatches(codes[j], Val(languageCode))])
       IN IF k # 0 THEN k ELSE 1
  ELSE 1

\* ------------------------------------------------------------ the upstream

\* An HTTP response whose body is read as JSON: response.ok and the parsed
\* body, Absent when the body is not JSON.
JsonResponse(isOk, body) == Ok([ok |-> isOk, json |-> body])

\* An HTTP response whose body is read as text (its status is never looked
\* at).
TextResponse(text) == Ok([text |-> text])

\* The locals a strategy keeps across its awaits.
NoCtx == [service |-> 0, title |-> <<>>, duration |-> 0, language |-> <<>>]

\* --------------------------------------------------------- fetchViaCustomAPI

\* Lines 62-89: from the response of the streams endpoint to the selected
\* subtitle, or the error thrown.
CustomAPISelect(resp, videoId, languageCode) ==
  IF ~resp.ok THEN resp
  ELSE IF ~resp.value.ok
  THEN Thrown("Error", <<"API responded with status: ">>)
  ELSE IF IsAbsent(resp.value.json)
  THEN Thrown("SyntaxError", <<"Unexpected token">>)
  ELSE LET data == Val(resp.value.json)
           subtitles == IF IsAbsent(data.subtitles) THEN <<>>
                        ELSE Val(data.subtitles)
       IN IF Len(subtitles) = 0
          THEN Thrown("Error", <<"No subtitles available">>)
          ELSE LET codes == [k \in 1..Len(subtitles) |-> subtitles[k].code]
                   selectedSubtitle == subtitles[SelectIndex(codes, languageCode)]
               IN Ok([url |-> selectedSubtitle.url,
                      ctx |-> [service |-> 0,
                               title |-> StrOr(data.title, DefaultTitle(videoId)),
                               duration |-> NumOr(data.duration, 0),
                               language |-> StrOr(selectedSubtitle.code,
                                                  StrOr(languageCode, AUTO))]])

\* Lines 92-111: from the response of the subtitle URL to the transcript, or
\* the error thrown.
CustomAPIResult(resp, videoId, ctx) ==
  IF ~resp.ok THEN resp
  ELSE LET segments == parseVTT(resp.value.text) IN
       IF Len(segments) = 0
       THEN Thrown("Error", <<"Failed to parse subtitles">>)
       ELSE Ok(Transcript(videoId, ctx.title, ctx.duration, ctx.language,
                          segments))

\* --------------------------------------------------- fetchTranscriptViaProxy

\* The list proxyServices.
proxyServices == <<"youtube-transcript-api", "yt-dlp-web">>

\* ProxyServiceResult without the test of lines 353-356 for an empty list.
ProxyServiceResult_NoEmptyCheck(resp, videoId, languageCode) ==
  IF ~resp.ok THEN [ok |-> FALSE]
  ELSE IF ~resp.value.ok THEN [ok |-> FALSE]
  ELSE IF IsAbsent(resp.value.json) THEN [ok |-> FALSE]
  ELSE LET n == NormalizeProxy(Val(resp.value.json), DefaultTitle(videoId))
           segments == n.segments
       IN Ok(Transcript(videoId, n.title,
                        IF Len(segments) = 0 THEN 0
                        ELSE segments[Len(segments)].end,
                        StrOr(languageCode, AUTO), segments))

\* Lines 305-374, one turn of the loop: the transcript returned, or
\* ok = FALSE for `continue`.
ProxyServiceResult(resp, videoId, languageCode) ==
  IF ~resp.ok THEN [ok |-> FALSE]
  ELSE IF ~resp.value.ok THEN [ok |-> FALSE]
  ELSE IF IsAbsent(resp.value.json) THEN [ok |-> FALSE]
  ELSE LET n == NormalizeProxy(Val(resp.value.json), DefaultTitle(videoId))
           segments == n.segments
       IN IF Len(segments) = 0 THEN [ok |-> FALSE]
          ELSE LET lastSegment == segments[Len(segments)] IN
               Ok(Transcript(videoId, n.title, lastSegment.end,
                             StrOr(languageCode, AUTO), segments))

\* ProxyExhausted without the test of NODE_ENV.
ProxyExhausted_Ungated(nodeEnv, videoId, languageCode) ==
  Ok(generateSampleTranscript(videoId, languageCode))

\* Lines 377-385: after the last service failed.
ProxyExhausted(nodeEnv, videoId, languageCode) ==
  IF nodeEnv = "development"
  THEN Ok(generateSampleTranscript(videoId, languageCode))
  ELSE NoCaptionsError

\* ---------------------------------------------------- fetchViaDirectScraping

YOUTUBE_SUFFIX == <<" ","-"," ","Y","o","u","T","u","b","e">>

\* str.replace(lit, by) with a string pattern: the first occurrence only.
ReplaceFirst(s, lit, by) ==
  LET p == IndexOf(s, lit, 1) IN
  IF p = 0 THEN s
  ELSE SubSeq(s, 1, p - 1) \o by \o SubSeq(s, p + Len(lit), Len(s))

\* pageContent.match(captionRegex): the first "captionTracks": [...] of the
\* page.
CaptionMatch(page) == page.captionTracks

\* pageContent.match(altRegex): a "captionTracks": [...] that follows
\* "playerCaptionsTracklistRenderer": {. Whatever altRegex matches contains a
\* match of captionRegex.
AltMatch(page) ==
  IF page.inRenderer THEN page.captionTracks ELSE Absent

\* Lines 235-237.
PageTitle(page, videoId) ==
  IF StrTruthy(page.metaTitle)
  THEN ReplaceFirst(Val(page.metaTitle), YOUTUBE_SUFFIX, <<>>)
  ELSE IF StrTruthy(page.titleTag)
  THEN ReplaceFirst(Val(page.titleTag), YOUTUBE_SUFFIX, <<>>)
  ELSE DefaultTitle(videoId)

\* Lines 184-222: from the watch page to the selected track, or the error
\* thrown. A track list is [valid |-> JSON.parse succeeds, tracks |-> ...].
ScrapeSelect(resp, videoId, languageCode) ==
  IF ~resp.ok THEN resp
  ELSE LET page == resp.value.page
           captionMatch == CaptionMatch(page)
       IN
       IF IsAbsent(captionMatch) /\ IsAbsent(AltMatch(page))
       THEN Thrown("Error", <<"Caption tracks not found">>)
       ELSE IF IsAbsent(captionMatch)
       THEN \* captionMatch[1] = altMatch[1] with captionMatch null
            Thrown("TypeError", <<"Cannot set properties of null">>)
       ELSE IF ~Val(captionMatch).valid
       THEN Thrown("SyntaxError", <<"Unexpected token">>)
       ELSE LET captionTracks == Val(captionMatch).tracks IN
            IF Len(captionTracks) = 0
            THEN Thrown("Error", <<"No captions available">>)
            ELSE LET codes == [k \in 1..Len(captionTracks) |->
                                 captionTracks[k].languageCode]
                     selectedTrack ==
                       captionTracks[SelectIndex(codes, languageCode)]
                 IN IF ~StrTruthy(selectedTrack.baseUrl)
                    THEN Thrown("Error", <<"Caption URL not found">>)
                    ELSE Ok([url |-> selectedTrack.baseUrl,
                             ctx |-> [service |-> 0,
                                      title |-> PageTitle(page, videoId),
                                      duration |-> 0,
                                      language |->
                                        StrOr(selectedTrack.languageCode,
                                              StrOr(languageCode, AUTO))]])

\* Lines 224-251: from the caption payload to the transcript, or the error
\* thrown.
ScrapeResult(resp, videoId, ctx) ==
  IF ~resp.ok THEN resp
  ELSE LET segments == parseTranscriptXML(resp.value.text) IN
       IF Len(segments) = 0
       THEN Thrown("Error", <<"Failed to parse caption data">>)
       ELSE LET lastSegment == segments[Len(segments)] IN
            Ok(Transcript(videoId, ctx.title, Ceil(lastSegment.end),
                          ctx.language, segments))

\* ------------------------------------------------------------------ inputs

\* The values of process.env.NODE_ENV.
NodeEnvs == {"production", "development", "test"}

AB == <<"a","b">>
\* The url field of the request body.
Urls ==
  { NOT_A_URL,
    HTTPS \o EXAMPLE,
    YT_WATCH \o AB,
    HTTPS \o WWW \o YT_WATCH,
    HTTPS \o WWW \o YT_WATCH \o AB,
    HTTPS \o YT_SHORT \o AB \o <<"?","t","=","5">>,
    HTTPS \o WWW \o YT_EMBED \o AB,
    HTTP \o YT_V \o AB }

\* The language field of the request body.
Languages == {Absent, Some(JA), Some(EN)}

\* The request bodies: one that is not JSON, and the JSON objects with a url
\* and an optional language.
Requests ==
  {[json |-> FALSE, url |-> <<>>, language |-> Absent]}
  \cup [json : {TRUE}, url : Urls, language : Languages]

\* A subtitle entry of the streams endpoint and a caption track of the watch
\* page.
Subtitle(code, url, autoGenerated) ==
  [code |-> code, url |-> url, autoGenerated |-> autoGenerated]
Track(languageCode, baseUrl, kind) ==
  [languageCode |-> languageCode, baseUrl |-> baseUrl, kind |-> kind]

URL1 == Some(<<"u1">>)
URL2 == Some(<<"u2">>)
TITLE == <<"T">>

StreamsData(subtitles, title, duration) ==
  [subtitles |-> subtitles, title |-> title, duration |-> duration]

\* What the streams endpoint may answer.
StreamsResponses ==
  { NetworkError,
    JsonResponse(FALSE, Absent),
    JsonResponse(TRUE, Absent),
    JsonResponse(TRUE, Some(StreamsData(Absent, Some(TITLE), Some(Sec(10))))),
    JsonResponse(TRUE, Some(StreamsData(Some(<<>>), Absent, Absent))),
    JsonResponse(TRUE, Some(StreamsData(
      Some(<<Subtitle(Some(EN), URL1, TRUE), Subtitle(Some(JA), URL2, FALSE)>>),
      Some(TITLE), Some(Sec(10))))),
    JsonResponse(TRUE, Some(StreamsData(
      Some(<<Subtitle(Some(EN), Absent, FALSE)>>), Absent, Absent))) }

VTT_EXAMPLE ==
  <<"W","E","B","V","T","T","\n","\n","0","0",":","0","0",":","0","1",".","0",
  "0","0"," ","-","-",">"," ","0","0",":","0","0",":","0","2",".","5","0","0",
  "\n","H","e","l","l","o","\n","W","o","r","l","d","\n","\n">>
VTT_NO_CUES == <<"W","E","B","V","T","T","\n","\n">>
VTT_SETTINGS ==
  <<"W","E","B","V","T","T","\n","\n","0","0",":","0","1",".","0","0","0"," ",
  "-","-",">"," ","0","1",":","0","0",":","0","3",".","2","5","0"," ","a","l",
  "i","g","n",":","s","t","a","r","t","\n","H","i","\n","\n","0","0",":","0",
  "3",".","0","0","0"," ","-","-",">"," ","0","0",":","0","4",".","0","0","0",
  "\n"," ","\n">>
NOT_FOUND_PAGE == <<"<","h","t","m","l",">">>

\* What the subtitle URL may answer.
SubtitleResponses ==
  { NetworkError, TextResponse(VTT_EXAMPLE), TextResponse(VTT_NO_CUES),
    TextResponse(VTT_SETTINGS), TextResponse(NOT_FOUND_PAGE) }

\* An item of a proxy response; each field is optional.
Item(start, offset, end, duration, dur, text, content) ==
  [start |-> start, offset |-> offset, end |-> end, duration |-> duration,
   dur |-> dur, text |-> text, content |-> content]

ProxyArray(items) ==
  [isArray |-> TRUE, items |-> items, transcript |-> Absent,
   segments |-> Absent, title |-> Absent]
ProxyObject(transcript, segments, title) ==
  [isArray |-> FALSE, items |-> <<>>, transcript |-> transcript,
   segments |-> segments, title |-> title]

HI == <<"H","i">>
YO == <<"Y","o">>

\* The longest array of items a proxy service answers with.
MaxItems == 2

\* The items of an array response.
ItemKinds ==
  { Item(Some(0), Absent, Absent, Some(Sec(3)), Absent, Some(HI), Absent),
    Item(Absent, Some(Sec(3)), Absent, Absent, Some(Sec(2)), Absent, Some(YO)),
    Item(Some(Sec(1)), Absent, Some(0), Absent, Absent, Some(<<>>), Absent) }

\* The arrays of at most MaxItems items.
ItemLists == UNION {[1..n -> ItemKinds] : n \in 0..MaxItems}

\* What a proxy service may answer.
ProxyResponses ==
  { NetworkError,
    JsonResponse(FALSE, Absent),
    JsonResponse(TRUE, Absent),
    JsonResponse(TRUE, Some(ProxyObject(Absent, Absent, Some(TITLE)))),
    JsonResponse(TRUE, Some(ProxyObject(
      Some(<< Item(Some(Sec(1)), Absent, Some(Sec(2)), Absent, Absent,
                   Some(HI), Absent) >>),
      Absent, Some(TITLE)))),
    JsonResponse(TRUE, Some(ProxyObject(
      Absent,
      Some(<< Item(Absent, Absent, Absent, Some(Sec(2)), Absent, Some(<<>>),
                   Absent) >>),
      Absent))) }
  \cup {JsonResponse(TRUE, Some(ProxyArray(items))) : items \in ItemLists}

TrackList(valid, tracks) == [valid |-> valid, tracks |-> tracks]
Page(captionTracks, inRenderer, metaTitle, titleTag) ==
  [page |-> [captionTracks |-> captionTracks, inRenderer |-> inRenderer,
             metaTitle |-> metaTitle, titleTag |-> titleTag]]

\* What the watch page may answer.
PageResponses ==
  { NetworkError,
    Ok(Page(Absent, FALSE, Absent, Some(TITLE \o YOUTUBE_SUFFIX))),
    Ok(Page(Some(TrackList(FALSE, <<>>)), TRUE, Some(TITLE), Absent)),
    Ok(Page(Some(TrackList(TRUE, <<>>)), FALSE, Absent, Absent)),
    Ok(Page(Some(TrackList(TRUE, <<Track(Some(EN), Absent, Absent)>>)),
            TRUE, Some(TITLE), Absent)),
    Ok(Page(Some(TrackList(TRUE,
              << Track(Some(EN), URL1, Some(<<"asr">>)),
                 Track(Some(JA), URL2, Absent) >>)),
            TRUE, Some(TITLE), Some(TITLE \o YOUTUBE_SUFFIX))) }

XML_EXAMPLE ==
  <<"<","t","e","x","t"," ","s","t","a","r","t","=","\"","1",".","0","\""," ",
  "d","u","r","=","\"","2",".","0","\"",">","A"," ","&","a","m","p",";"," ",
  "B","<","/","t","e","x","t",">">>
XML_EMPTY == <<"<","t","r","a","n","s","c","r","i","p","t",">","<","/","t","r","a","n","s","c","r","i","p","t",">">>
XML_BLANK ==
  <<"<","t","e","x","t"," ","s","t","a","r","t","=","\"","0","\""," ","d","u",
  "r","=","\"","1",".","5","\"",">","H","i","<","/","t","e","x","t",">","<",
  "t","e","x","t"," ","s","t","a","r","t","=","\"","1",".","5","\""," ","d",
  "u","r","=","\"","1","\"",">"," ","\n","<","/","t","e","x","t",">">>

\* What the caption URL may answer.
CaptionResponses ==
  { NetworkError, TextResponse(XML_EXAMPLE), TextResponse(XML_EMPTY),
    TextResponse(XML_BLANK) }

\* ------------------------------------------------------------------- state

VARIABLES
  nodeEnv,      \* process.env.NODE_ENV
  request,      \* the body of the request
  postPc,       \* POST: "body" (awaiting request.json()), "race" (awaiting
                \* Promise.race), "done" (response returned)
  response,     \* the sequence of responses POST has returned (at most one)
  timer,        \* the setTimeout of line 500: "unset", "armed", "fired"
  videoId,      \* POST's videoId (<<>> before it is extracted)
  chainPc,      \* fetchYouTubeTranscript: "idle", the await it is suspended
                \* at, or "settled"
  ctx,          \* the locals of the strategy in progress
  chainResult,  \* what transcriptPromise settled with (<<>> before)
  attempts,     \* history: the strategies started, in order, each with its
                \* outcome ("running", "declined", "returned"), what its
                \* promise settled with and whether it failed inside
  netLog,       \* history: the outbound fetches issued, in order, each with
                \* whether the response had already been returned
  calls         \* history: the calls of the module's functions made from
                \* outside a request, in order, each with its arguments and
                \* its result

vars ==
  <<nodeEnv, request, postPc, response, timer, videoId, chainPc, ctx,
    chainResult, attempts, netLog, calls>>

\* The approaches of fetchYouTubeTranscript, in the order of the array.
approaches == <<"fetchViaCustomAPI", "fetchTranscriptViaProxy",
                "fetchViaDirectScraping">>

\* The await a strategy is first suspended at.
FirstAwait(k) ==
  CASE k = 1 -> "custom:streams" [] k = 2 -> "proxy:service"
    [] k = 3 -> "scrape:page"

\* --------------------------------------------------------------- responses

SUGGESTION_URL == <<"URL no keishiki: https://www.youtube.com/watch?v=VIDEO_ID">>
SUGGESTION_RETRY == <<"jikan wo oite saido otameshi itadaku ka, betsu no douga wo otameshi kudasai.">>

\* NextResponse.json of a failure: the HTTP status and the error object;
\* suggestion is Absent when the object has no such field.
Failure(status, code, message, suggestion) ==
  [success |-> FALSE, status |-> status, code |-> code, message |-> message,
   suggestion |-> suggestion, data |-> Absent]

\* Lines 505-516.
Success(transcript) ==
  [success |-> TRUE, status |-> 200, code |-> "", message |-> <<>>,
   suggestion |-> Absent, data |-> Some(transcript)]

\* Lines 475-493.
InvalidUrlResponse ==
  Failure(400, "INVALID_URL", <<"yuukou na YouTube URL wo nyuuryoku shite kudasai">>,
          Some(SUGGESTION_URL))

\* CatchResponse without the branch for the timeout message.
CatchResponse_NoTimeoutBranch(error) ==
  IF error.class = "ZodError"
  THEN Failure(400, "VALIDATION_ERROR",
               <<"rikuesuto parameeta ga fusei desu">>, Absent)
  ELSE IF Includes(error.message, NO_CAPTIONS_PHRASE)
  THEN Failure(500, "NO_CAPTIONS",
               <<"kono douga ni wa jimaku ga sonzai shinai ka, shutoku dekimasen.">>,
               Some(SUGGESTION_RETRY))
  ELSE Failure(500, "INTERNAL_ERROR", error.message, Some(SUGGESTION_RETRY))

\* The catch block of POST, lines 517-577, for a thrown error.
CatchResponse(error) ==
  IF error.class = "ZodError"
  THEN Failure(400, "VALIDATION_ERROR",
               <<"rikuesuto parameeta ga fusei desu">>, Absent)
  ELSE IF Includes(error.message, TIMEOUT_PHRASE)
  THEN Failure(500, "TIMEOUT_ERROR",
               <<"rikuesuto ga taimuauto shimashita. douga ga nagasugiru kanousei ga arimasu.">>,
               Some(SUGGESTION_RETRY))
  ELSE IF Includes(error.message, NO_CAPTIONS_PHRASE)
  THEN Failure(500, "NO_CAPTIONS",
               <<"kono douga ni wa jimaku ga sonzai shinai ka, shutoku dekimasen.">>,
               Some(SUGGESTION_RETRY))
  ELSE Failure(500, "INTERNAL_ERROR", error.message, Some(SUGGESTION_RETRY))

\* What POST returns once Promise.race has settled with `settled`.
RaceResponse(settled) ==
  IF settled.ok THEN Success(settled.value) ELSE CatchResponse(settled)

\* ------------------------------------------------- fetchYouTubeTranscript

\* The variables of the chain as one record.
Chain ==
  [pc |-> chainPc, ctx |-> ctx, result |-> chainResult,
   attempts |-> attempts, netLog |-> netLog]

\* fetch(...) is called: one more outbound call.
Issue(c, target) ==
  [c EXCEPT !.netLog = Append(@, [to |-> target, late |-> postPc = "done"])]

\* The outcome of the approach in progress is recorded. The approach has
\* failed inside when it threw, or when it had reached line 378 ("All proxy
\* services failed").
Finish(c, outcome, result) ==
  [c EXCEPT !.attempts[Len(c.attempts)] =
              [@ EXCEPT !.outcome = outcome,
                        !.result = Some(result),
                        !.failed = @ \/ ~result.ok]]

\* Line 378: every proxy service has failed.
AllProxiesFailed(c) ==
  [c EXCEPT !.attempts[Len(c.attempts)].failed = TRUE]

\* approaches[k]() is called: the strategy runs up to its first await.
Begin(c, k) ==
  LET started == [c EXCEPT !.attempts =
                    Append(@, [strategy |-> approaches[k],
                               outcome |-> "running", result |-> Absent,
                               failed |-> FALSE]),
                  !.pc = FirstAwait(k),
                  !.ctx = IF k = 2 THEN [NoCtx EXCEPT !.service = 1]
                          ELSE NoCtx]
  IN Issue(started, IF k = 2 THEN proxyServices[1] ELSE FirstAwait(k))

\* fetchYouTubeTranscript returns or throws.
Settle(c, result) ==
  [c EXCEPT !.pc = "settled", !.ctx = NoCtx, !.result = Some(result)]

\* Lines 48-53: every approach failed.
Exhausted(c) ==
  IF nodeEnv = "development"
  THEN Settle(c, Ok(generateSampleTranscript(videoId, request.language)))
  ELSE Settle(c, NoCaptionsError)

\* ApproachDone without the return of line 40: the loop goes on to the next
\* approach after a success.
ApproachDone_NoReturn(c, k, result) ==
  IF k < Len(approaches)
  THEN Begin(Finish(c, IF result.ok /\ Len(result.value.segments) > 0
                       THEN "returned" ELSE "declined", result), k + 1)
  ELSE IF result.ok /\ Len(result.value.segments) > 0
  THEN Settle(Finish(c, "returned", result), result)
  ELSE Exhausted(Finish(c, "declined", result))

\* Lines 36-46, one turn of the loop for approach k, whose promise settled
\* with `result`.
ApproachDone(c, k, result) ==
  IF result.ok /\ Len(result.value.segments) > 0
  THEN Settle(Finish(c, "returned", result), result)
  ELSE IF k < Len(approaches)
  THEN Begin(Finish(c, "declined", result), k + 1)
  ELSE Exhausted(Finish(c, "declined", result))

\* Commit with a POST that answers whenever the chain settles, the race
\* already decided or not.
Commit_AnswersAgain(c) ==
  /\ chainPc' = c.pc
  /\ ctx' = c.ctx
  /\ chainResult' = c.result
  /\ attempts' = c.attempts
  /\ netLog' = c.netLog
  /\ IF c.pc = "settled"
     THEN /\ postPc' = "done"
          /\ response' = Append(response, RaceResponse(Val(c.result)))
     ELSE UNCHANGED <<postPc, response>>
  /\ UNCHANGED <<nodeEnv, request, timer, videoId, calls>>

\* The chain's variables take the values of c; if the chain has settled while
\* POST awaits the race, POST resumes and returns its response.
Commit(c) ==
  /\ chainPc' = c.pc
  /\ ctx' = c.ctx
  /\ chainResult' = c.result
  /\ attempts' = c.attempts
  /\ netLog' = c.netLog
  /\ IF c.pc = "settled" /\ postPc = "race"
     THEN /\ postPc' = "done"
          /\ response' = Append(response, RaceResponse(Val(c.result)))
     ELSE UNCHANGED <<postPc, response>>
  /\ UNCHANGED <<nodeEnv, request, timer, videoId, calls>>

\* -------------------------------------------------------------------- POST

Init ==
  /\ nodeEnv \in NodeEnvs
  /\ request \in Requests
  /\ postPc = "body"
  /\ response = <<>>
  /\ timer = "unset"
  /\ videoId = <<>>
  /\ chainPc = "idle"
  /\ ctx = NoCtx
  /\ chainResult = Absent
  /\ attempts = <<>>
  /\ netLog = <<>>
  /\ calls = <<>>

\* POST returns `r` without having started the chain.
ReturnEarly(r) ==
  /\ postPc' = "done"
  /\ response' = Append(response, r)
  /\ UNCHANGED <<nodeEnv, request, timer, videoId, chainPc, ctx, chainResult,
                 attempts, netLog, calls>>

\* Line 470: request.json() rejects.
BodyNotJson ==
  /\ postPc = "body"
  /\ ~request.json
  /\ ReturnEarly(CatchResponse(Thrown("SyntaxError", <<"Unexpected token">>)))

\* Line 471: requestSchema.parse throws.
BodyInvalid ==
  /\ postPc = "body"
  /\ request.json
  /\ ~IsWellFormedUrl(request.url)
  /\ ReturnEarly(CatchResponse(Thrown("ZodError", <<"Invalid url">>)))

\* Lines 473-494: no video id in the url.
UrlWithoutId ==
  /\ postPc = "body"
  /\ request.json
  /\ IsWellFormedUrl(request.url)
  /\ ~StrTruthy(extractVideoId(request.url))
  /\ ReturnEarly(InvalidUrlResponse)

\* Lines 496-503: the chain is started (it runs to its first await), the
\* timer is set and POST awaits the race.
StartAcquisition ==
  /\ postPc = "body"
  /\ request.json
  /\ IsWellFormedUrl(request.url)
  /\ StrTruthy(extractVideoId(request.url))
  /\ LET c == Begin(Chain, 1) IN
       /\ chainPc' = c.pc
       /\ ctx' = c.ctx
       /\ chainResult' = c.result
       /\ attempts' = c.attempts
       /\ netLog' = c.netLog
  /\ videoId' = Val(extractVideoId(request.url))
  /\ timer' = "armed"
  /\ postPc' = "race"
  /\ UNCHANGED <<nodeEnv, request, response, calls>>

\* TimerFires without the rejection: the timer runs out and POST is left
\* waiting.
TimerFires_NoReject ==
  /\ timer = "armed"
  /\ timer' = "fired"
  /\ UNCHANGED <<nodeEnv, request, postPc, response, videoId, chainPc, ctx,
                 chainResult, attempts, netLog, calls>>

\* Line 500: the timer fires and rejects timeoutPromise; if POST still awaits
\* the race it resumes in its catch block.
TimerFires ==
  /\ timer = "armed"
  /\ timer' = "fired"
  /\ IF postPc = "race"
     THEN /\ postPc' = "done"
          /\ response' =
               Append(response, RaceResponse(Thrown("Error", TimeoutMessage)))
     ELSE UNCHANGED <<postPc, response>>
  /\ UNCHANGED <<nodeEnv, request, videoId, chainPc, ctx, chainResult,
                 attempts, netLog, calls>>

\* ------------------------------------------------------- the chain's steps

\* The streams endpoint answers fetchViaCustomAPI (lines 62-92).
StreamsResponds ==
  /\ chainPc = "custom:streams"
  /\ \E resp \in StreamsResponses :
       LET sel == CustomAPISelect(resp, videoId, request.language) IN
       IF sel.ok /\ StrTruthy(sel.value.url)
       THEN Commit(Issue([Chain EXCEPT !.pc = "custom:subtitle",
                                       !.ctx = sel.value.ctx],
                         "custom:subtitle"))
       ELSE IF sel.ok
       THEN \* fetch(undefined) rejects
            Commit(ApproachDone(Chain, 1,
                     Thrown("TypeError", <<"Failed to parse URL">>)))
       ELSE Commit(ApproachDone(Chain, 1, sel))

\* The subtitle URL answers fetchViaCustomAPI (lines 92-111).
SubtitleResponds ==
  /\ chainPc = "custom:subtitle"
  /\ \E resp \in SubtitleResponses :
       Commit(ApproachDone(Chain, 1, CustomAPIResult(resp, videoId, ctx)))

\* A proxy service answers fetchTranscriptViaProxy (lines 304-385).
ProxyResponds ==
  /\ chainPc = "proxy:service"
  /\ \E resp \in ProxyResponses :
       LET r == ProxyServiceResult(resp, videoId, request.language) IN
       IF r.ok THEN Commit(ApproachDone(Chain, 2, r))
       ELSE IF ctx.service < Len(proxyServices)
       THEN Commit(Issue([Chain EXCEPT !.ctx.service = @ + 1],
                         proxyServices[ctx.service + 1]))
       ELSE Commit(ApproachDone(AllProxiesFailed(Chain), 2,
                     ProxyExhausted(nodeEnv, videoId, request.language)))

\* The watch page answers fetchViaDirectScraping (lines 177-224).
PageResponds ==
  /\ chainPc = "scrape:page"
  /\ \E resp \in PageResponses :
       LET sel == ScrapeSelect(resp, videoId, request.language) IN
       IF sel.ok
       THEN Commit(Issue([Chain EXCEPT !.pc = "scrape:caption",
                                       !.ctx = sel.value.ctx],
                         "scrape:caption"))
       ELSE Commit(ApproachDone(Chain, 3, sel))

\* The caption URL answers fetchViaDirectScraping (lines 224-251).
CaptionResponds ==
  /\ chainPc = "scrape:caption"
  /\ \E resp \in CaptionResponses :
       Commit(ApproachDone(Chain, 3, ScrapeResult(resp, videoId, ctx)))

Next ==
  \/ BodyNotJson
  \/ BodyInvalid
  \/ UrlWithoutId
  \/ StartAcquisition
  \/ TimerFires
  \/ StreamsResponds
  \/ SubtitleResponds
  \/ ProxyResponds
  \/ PageResponds
  \/ CaptionResponds

Spec == Init /\ [][Next]_vars

\* ------------------------------------------- the functions called directly

\* The variables of a request; a direct call of one of the module's functions
\* leaves them alone.
requestVars ==
  <<nodeEnv, request, postPc, response, timer, videoId, chainPc, ctx,
    chainResult, attempts, netLog>>

\* One call: the function, its arguments and what it returned.
Call(fn, args, result) == [fn |-> fn, args |-> args, result |-> result]

\* The module is loaded and no request has arrived.
CallInit ==
  /\ nodeEnv = "test"
  /\ request = [json |-> FALSE, url |-> <<>>, language |-> Absent]
  /\ postPc = "body"
  /\ response = <<>>
  /\ timer = "unset"
  /\ videoId = <<>>
  /\ chainPc = "idle"
  /\ ctx = NoCtx
  /\ chainResult = Absent
  /\ attempts = <<>>
  /\ netLog = <<>>
  /\ calls = <<>>

\* The function is applied to one input and the call is recorded.
Apply(fn, args, result) ==
  /\ calls' = Append(calls, Call(fn, args, result))
  /\ UNCHANGED requestVars

\* A URL of one of the four shapes: an optional prefix, the literal of pattern
\* k, an identifier and what follows it.
ShapedUrl(c) == c.prefix \o patterns[c.k].lit \o c.id \o c.suffix

\* The shaped URLs extractVideoId is called with: two identifiers, and
\* suffixes that begin with each of the three delimiters.
UrlCases ==
  [ prefix : {<<>>, HTTPS \o WWW},
    k : 1..Len(patterns),
    id : {AB, <<"Z","9","_","-","k">>},
    suffix : { <<>>,
               <<"&","t","=","5">>,
               <<"?","t","=","5">>,
               <<"#","t","=","5">>,
               <<"?","a","=","1","&","b","#","c">> } ]

\* extractVideoId(url) is called.
CallExtractVideoId ==
  /\ calls = <<>>
  /\ \E url \in Urls \cup {ShapedUrl(c) : c \in UrlCases} :
       Apply("extractVideoId", <<url>>, extractVideoId(url))

EN_US == <<"e","n","-","U","S">>

\* The longest track list an upstream answers with.
MaxTracks == 2

\* The track lists: every ordering of at most MaxTracks tracks, each with a
\* language and manually authored or auto-generated.
TrackLists ==
  UNION { [1..n -> [code : {EN, JA, EN_US}, auto : BOOLEAN]] :
            n \in 1..MaxTracks }

\* The streams endpoint's answer with the list as its subtitles, and the watch
\* page with the list as its caption tracks; the URL of the k-th entry is the
\* decimal string of k.
StreamsWith(list) ==
  JsonResponse(TRUE, Some(StreamsData(
    Some([k \in 1..Len(list) |->
            Subtitle(Some(list[k].code), Some(String(k)), list[k].auto)]),
    Absent, Absent)))
PageWith(list) ==
  Ok(Page(Some(TrackList(TRUE,
       [k \in 1..Len(list) |->
          Track(Some(list[k].code), Some(String(k)),
                IF list[k].auto THEN Some(<<"a","s","r">>) ELSE Absent)])),
     TRUE, Absent, Absent))

\* fetchViaCustomAPI(videoId, languageCode) is called and runs up to its fetch
\* of the selected subtitle.
CallCustomAPISelect ==
  /\ calls = <<>>
  /\ \E list \in TrackLists, languageCode \in Languages :
       Apply("fetchViaCustomAPI", <<list, languageCode>>,
             CustomAPISelect(StreamsWith(list), AB, languageCode))

\* fetchViaDirectScraping(videoId, languageCode) is called and runs up to its
\* fetch of the selected track.
CallScrapeSelect ==
  /\ calls = <<>>
  /\ \E list \in TrackLists, languageCode \in Languages :
       Apply("fetchViaDirectScraping", <<list, languageCode>>,
             ScrapeSelect(PageWith(list), AB, languageCode))

\* The longest list of cues or text nodes in a payload.
MaxEntries == 2

\* The decimal digits of n, padded with zeros on the left to `width` digits.
Pad(n, width) == [k \in 1..(width - Len(String(n))) |-> "0"] \o String(n)

RECURSIVE Flatten(_)
\* The concatenation of a sequence of strings.
Flatten(strs) ==
  IF Len(strs) = 0 THEN <<>> ELSE Head(strs) \o Flatten(Tail(strs))

\* A WebVTT timestamp for a time in milliseconds: hh:mm:ss.mmm, or mm:ss.mmm
\* when the hours are left out.
FormatVTTTime(ms, hours) ==
  (IF hours THEN Pad(ms \div 3600000, 2) \o COLON ELSE <<>>)
  \o Pad(IF hours THEN (ms \div 60000) % 60 ELSE ms \div 60000, 2) \o COLON
  \o Pad((ms \div 1000) % 60, 2) \o <<".">> \o Pad(ms % 1000, 3)

\* A cue: its timing line, its text lines and the blank line that ends it.
RenderCue(c) ==
  FormatVTTTime(c.start, c.hours) \o <<" ">> \o ARROW \o <<" ">>
  \o FormatVTTTime(c.end, c.hours) \o NEWLINE
  \o Flatten([k \in 1..Len(c.lines) |-> c.lines[k] \o NEWLINE]) \o NEWLINE

\* A WebVTT payload: the header block, then the cues.
RenderVTT(header, cues) ==
  header \o Flatten([k \in 1..Len(cues) |-> RenderCue(cues[k])])

\* The cues of the payloads: two text lines; hours left out and padded text;
\* a time before the others'; no text but white space; a time beyond an hour.
VTTCues ==
  { [start |-> 1000, end |-> 2500, hours |-> TRUE,
     lines |-> << <<"H","e","l","l","o">>, <<"W","o","r","l","d">> >>],
    [start |-> 63000, end |-> 64250, hours |-> FALSE,
     lines |-> << <<" "," ","H","i"," ">> >>],
    [start |-> 500, end |-> 900, hours |-> TRUE, lines |-> << YO >>],
    [start |-> 5000, end |-> 6000, hours |-> TRUE, lines |-> << <<" ">> >>],
    [start |-> 3661000, end |-> 3662125, hours |-> TRUE,
     lines |-> << <<"L","a","t","e">> >>] }

\* The header blocks: the bare signature, and one with metadata lines.
VTTHeaders ==
  { VTT_NO_CUES,
    <<"W","E","B","V","T","T","\n","K","i","n","d",":"," ","c","a","p","t",
      "i","o","n","s","\n","L","a","n","g","u","a","g","e",":"," ","e","n",
      "\n","\n">> }

VTTCueLists == UNION {[1..n -> VTTCues] : n \in 0..MaxEntries}

\* The payloads parseVTT is called with.
VTTPayloads ==
  {VTT_EXAMPLE, VTT_SETTINGS, NOT_FOUND_PAGE}
  \cup {RenderVTT(h, cues) : h \in VTTHeaders, cues \in VTTCueLists}

\* A number of seconds as an attribute value: 1 for 1000, 3.500 for 3500.
FormatSeconds(ms) ==
  IF ms % 1000 = 0 THEN String(ms \div 1000)
  ELSE String(ms \div 1000) \o <<".">> \o Pad(ms % 1000, 3)

\* A text node of the timed markup.
RenderNode(n) ==
  XML_OPEN \o FormatSeconds(n.start) \o XML_DUR \o FormatSeconds(n.dur)
  \o <<"\"", ">">> \o n.raw \o XML_CLOSE

\* A timed-markup payload.
RenderXML(nodes) ==
  <<"<","t","r","a","n","s","c","r","i","p","t",">">>
  \o Flatten([k \in 1..Len(nodes) |-> RenderNode(nodes[k])])
  \o <<"<","/","t","r","a","n","s","c","r","i","p","t",">">>

\* The text nodes of the payloads: an encoded ampersand; an encoded entity
\* (the text "&lt;"); the other four entities, at a time before the others';
\* a newline; nothing but white space.
XMLNodes ==
  { [start |-> 1000, dur |-> 2000,
     raw |-> <<"A"," ","&","a","m","p",";"," ","B">>],
    [start |-> 3500, dur |-> 1250,
     raw |-> <<"&","a","m","p",";","l","t",";">>],
    [start |-> 500, dur |-> 500,
     raw |-> <<"x","&","l","t",";","y","&","g","t",";"," ","&","q","u","o",
               "t",";","z","&","#","3","9",";">>],
    [start |-> 5000, dur |-> 1000, raw |-> <<"a","\n","b">>],
    [start |-> 6000, dur |-> 1000, raw |-> <<" ">>] }

XMLNodeLists == UNION {[1..n -> XMLNodes] : n \in 0..MaxEntries}

\* The payloads parseTranscriptXML is called with.
XMLPayloads ==
  {XML_EXAMPLE, XML_EMPTY, XML_BLANK, NOT_FOUND_PAGE}
  \cup {RenderXML(nodes) : nodes \in XMLNodeLists}

\* parseVTT(vttText) is called.
CallParseVTT ==
  /\ calls = <<>>
  /\ \E vttText \in VTTPayloads :
       Apply("parseVTT", <<vttText>>, parseVTT(vttText))

\* parseTranscriptXML(xmlText) is called.
CallParseTranscriptXML ==
  /\ calls = <<>>
  /\ \E xmlText \in XMLPayloads :
       Apply("parseTranscriptXML", <<xmlText>>, parseTranscriptXML(xmlText))

\* Items that carry a zero next to the field the code falls back to: a start
\* of zero beside an offset, a duration of zero beside a dur, an end of zero
\* beside a duration.
ZeroFieldItems ==
  { Item(Some(0), Some(Sec(3)), Absent, Some(Sec(2)), Absent, Some(HI), Absent),
    Item(Some(Sec(1)), Absent, Absent, Some(0), Some(Sec(2)), Some(HI), Absent),
    Item(Some(Sec(1)), Absent, Some(0), Some(Sec(2)), Absent, Some(HI), Absent) }

\* The JSON bodies the normalisation is called on: those of ProxyResponses,
\* and one-item answers of the three shapes over ZeroFieldItems.
NormalizeInputs ==
  {Val(r.value.json) : r \in {q \in ProxyResponses :
                                q.ok /\ q.value.ok /\ ~IsAbsent(q.value.json)}}
  \cup {ProxyArray(<<item>>) : item \in ZeroFieldItems}
  \cup {ProxyObject(Some(<<item>>), Absent, Absent) : item \in ZeroFieldItems}
  \cup {ProxyObject(Absent, Some(<<item>>), Absent) : item \in ZeroFieldItems}

\* The normalisation of fetchTranscriptViaProxy is applied to the JSON a
\* service answered with.
CallNormalizeProxy ==
  /\ calls = <<>>
  /\ \E data \in NormalizeInputs :
       Apply("normalize", <<data>>,
             NormalizeProxy(data, DefaultTitle(AB)).segments)

\* ------------------------------------------------------------ the URL form

\* Literals of the form's patterns.
YT_WATCH_QUERY == <<"y","o","u","t","u","b","e",".","c","o","m","/","w","a","t","c","h","?">>
V_PARAM == <<"v","=">>

\* The characters the capture group [^&\n?#]+ of both patterns excludes.
formStop == {"&", "\n", "?", "#"}

\* The alternatives of the form's first pattern.
formShapes == <<YT_WATCH, YT_SHORT, YT_EMBED>>

\* url.match of the first pattern: at the leftmost position where one of the
\* alternatives occurs followed by a character of the capture class, the run
\* of such characters.
FormShapeCapture(url) ==
  LET at(p) == {k \in 1..Len(formShapes) :
                  /\ MatchesAt(url, p, formShapes[k])
                  /\ p + Len(formShapes[k]) <= Len(url)
                  /\ url[p + Len(formShapes[k])] \notin formStop}
      starts == {p \in 1..Len(url) : at(p) # {}}
  IN IF starts = {} THEN Absent
     ELSE LET p == CHOOSE q \in starts : \A r \in starts : q <= r
              k == CHOOSE j \in at(p) : \A h \in at(p) : j <= h
          IN Some(RunFrom(url, p + Len(formShapes[k]), formStop))

\* url.match of the second pattern, youtube.com/watch? .* v= ([^&\n?#]+): the
\* leftmost "youtube.com/watch?", then on the same line the last "v=" that a
\* character of the capture class follows (.* is greedy and does not cross a
\* line end).
FormQueryCapture(url) ==
  LET ends(p) == {q \in (p + Len(YT_WATCH_QUERY))..Len(url) :
                    /\ MatchesAt(url, q, V_PARAM)
                    /\ q + Len(V_PARAM) <= Len(url)
                    /\ url[q + Len(V_PARAM)] \notin formStop
                    /\ \A j \in (p + Len(YT_WATCH_QUERY))..(q - 1) :
                         url[j] # "\n"}
      starts == {p \in 1..Len(url) :
                   MatchesAt(url, p, YT_WATCH_QUERY) /\ ends(p) # {}}
  IN IF starts = {} THEN Absent
     ELSE LET p == CHOOSE q \in starts : \A r \in starts : q <= r
              e == CHOOSE q \in ends(p) : \A r \in ends(p) : q >= r
          IN Some(RunFrom(url, e + Len(V_PARAM), formStop))

\* extractVideoId of the form (URLInput): Some(id), or Absent for null.
URLInput_extractVideoId(url) ==
  IF ~IsAbsent(FormShapeCapture(url)) THEN FormShapeCapture(url)
  ELSE FormQueryCapture(url)

validateYouTubeURL(url) == ~IsAbsent(URLInput_extractVideoId(url))

\* handleSubmit with `url` and `language` in the form's state: the variables
\* generateTranscript is called with, or Absent when the form shows an error
\* instead.
handleSubmit(url, language) ==
  IF Len(Trim(url)) = 0 THEN Absent
  ELSE IF ~validateYouTubeURL(url) THEN Absent
  ELSE Some([url |-> Trim(url),
             language |-> IF language = AUTO THEN Absent ELSE Some(language)])

\* What the user has typed: the request URLs, the shaped URLs, a watch URL
\* whose v parameter is not the first, and input with white space around it.
FormUrls ==
  Urls \cup {ShapedUrl(c) : c \in UrlCases}
  \cup { HTTPS \o WWW \o YT_WATCH_QUERY \o <<"t","=","5","&">> \o V_PARAM \o AB,
         HTTPS \o WWW \o YT_WATCH_QUERY \o <<"t","=","5","&">> \o V_PARAM,
         <<" ">> \o HTTPS \o YT_SHORT \o AB \o <<"\n">>,
         <<" ">>,
         <<>> }

\* The form's language selector: 'auto', its initial value, and two of the
\* language codes of SUPPORTED_LANGUAGES.
FormLanguages == {AUTO, JA, EN}

\* The form's extractVideoId(url) is called.
CallFormExtractVideoId ==
  /\ calls = <<>>
  /\ \E url \in FormUrls :
       Apply("URLInput.extractVideoId", <<url>>, URLInput_extractVideoId(url))

\* The form is submitted.
CallHandleSubmit ==
  /\ calls = <<>>
  /\ \E url \in FormUrls, language \in FormLanguages :
       Apply("handleSubmit", <<url, language>>, handleSubmit(url, language))

\* ---------------------------------------------------------- the client hook

\* The message of fetchTranscript's error for a response that is not ok.
HttpErrorMessage(status) == <<"HTTP error! status: ">> \o String(status)

\* fetchTranscript once POST has answered with `resp`: the transcript it
\* returns or the error it throws. response.ok is a status of 200 to 299;
\* result.error of a failure body is the error object, which new Error turns
\* into the string "[object Object]".
fetchTranscript(resp) ==
  IF ~(resp.status \in 200..299)
  THEN Thrown("Error", HttpErrorMessage(resp.status))
  ELSE IF ~resp.success THEN Thrown("Error", <<"[object Object]">>)
  ELSE IF IsAbsent(resp.data)
  THEN Thrown("Error", <<"No transcript data received">>)
  ELSE Ok(Val(resp.data))

\* What useTranscript returns once the mutation has settled with `settled`.
useTranscript(settled) ==
  [isSuccess |-> settled.ok,
   isError |-> ~settled.ok,
   data |-> IF settled.ok THEN Some(settled.value) ELSE Absent,
   error |-> IF settled.ok THEN Absent ELSE Some(settled.message)]

\* The answers of POST the hook is given: the failure of each class and a
\* transcript.
ServerAnswers ==
  { InvalidUrlResponse,
    CatchResponse(Thrown("SyntaxError", <<"Unexpected token">>)),
    CatchResponse(Thrown("ZodError", <<"Invalid url">>)),
    CatchResponse(Thrown("Error", TimeoutMessage)),
    CatchResponse(NoCaptionsError),
    Success(generateSampleTranscript(AB, Absent)),
    Success(generateSampleTranscript(AB, Some(EN))) }

\* generateTranscript: the mutation runs fetchTranscript, POST answers, and
\* the hook returns its state.
CallGenerateTranscript ==
  /\ calls = <<>>
  /\ \E resp \in ServerAnswers :
       Apply("generateTranscript", <<resp>>, useTranscript(fetchTranscript(resp)))

CallNext ==
  \/ CallExtractVideoId
  \/ CallCustomAPISelect
  \/ CallScrapeSelect
  \/ CallParseVTT
  \/ CallParseTranscriptXML
  \/ CallNormalizeProxy
  \/ CallFormExtractVideoId
  \/ CallHandleSubmit
  \/ CallGenerateTranscript

CallSpec == CallInit /\ [][CallNext]_vars

\* ----------------------------------------------- the parsers called again

\* The most calls of the parsers made one after the other.
MaxCalls == 3

RECURSIVE Emitted(_, _)
\* The number of segments the first n calls of parser fn have emitted.
Emitted(fn, n) ==
  IF n = 0 THEN 0
  ELSE Emitted(fn, n - 1)
       + (IF calls[n].fn = fn THEN Len(calls[n].result) ELSE 0)

\* Invoke with `index` kept in module scope instead of inside the parser: the
\* ids go on from where the parser's previous call stopped.
Invoke_SharedIndex(fn, payload) ==
  LET segments == IF fn = "parseVTT" THEN parseVTT(payload)
                  ELSE parseTranscriptXML(payload)
  IN [k \in 1..Len(segments) |->
        [segments[k] EXCEPT !.id = String(Emitted(fn, Len(calls)) + k)]]

\* A call of a parser: segments, index, i and textRegex are created inside
\* the function on every call, so the result depends on the payload only.
Invoke(fn, payload) ==
  IF fn = "parseVTT" THEN parseVTT(payload) ELSE parseTranscriptXML(payload)

\* parseVTT is called on a payload the subtitle URL may answer with.
AgainParseVTT ==
  /\ Len(calls) < MaxCalls
  /\ \E resp \in {r \in SubtitleResponses : r.ok} :
       Apply("parseVTT", <<resp.value.text>>,
             Invoke("parseVTT", resp.value.text))

\* parseTranscriptXML is called on a payload the caption URL may answer with.
AgainParseTranscriptXML ==
  /\ Len(calls) < MaxCalls
  /\ \E resp \in {r \in CaptionResponses : r.ok} :
       Apply("parseTranscriptXML", <<resp.value.text>>,
             Invoke("parseTranscriptXML", resp.value.text))

ParserNext ==
  \/ AgainParseVTT
  \/ AgainParseTranscriptXML

ParserSpec == CallInit /\ [][ParserNext]_vars

\* ------------------------------------------------- the request under a timer

\* setTimeout of line 500 runs its callback once the delay has passed: an
\* armed timer does not stay armed for ever. Nothing makes an upstream
\* service answer, so the steps of the chain carry no fairness.
LiveSpec == Spec /\ WF_vars(TimerFires)

\* ==================================================================== claims

\* POST has returned its response.
Responded == Len(response) = 1

\* The placeholder transcript is recognised by its title.
IsPlaceholder(t) == t.title = SAMPLE_TITLE \o t.videoId

\* A settled approach produced a non-empty segment list.
ProducesSegments(result) == result.ok /\ Len(result.value.segments) > 0

\* Every approach of the chain has been attempted and has declined.
AllDeclined ==
  /\ Len(attempts) = Len(approaches)
  /\ \A k \in 1..Len(attempts) : attempts[k].outcome = "declined"

\* The awaits of approach k.
AwaitsOf(k) ==
  CASE k = 1 -> {"custom:streams", "custom:subtitle"}
    [] k = 2 -> {"proxy:service"}
    [] k = 3 -> {"scrape:page", "scrape:caption"}

\* C1: the approaches are attempted in the order of the array and one at a
\* time: the k-th attempt is approach k, every attempt before the last has
\* finished without a non-empty segment list, an attempt that is still running
\* is the last one, and an attempt that returned a non-empty list is the last
\* one, ends the chain and gives the chain its result.
C1_SequentialFirstSuccess ==
  /\ Len(attempts) <= Len(approaches)
  /\ \A k \in 1..Len(attempts) :
       /\ attempts[k].strategy = approaches[k]
       /\ k < Len(attempts) =>
            /\ attempts[k].outcome = "declined"
            /\ ~ProducesSegments(Val(attempts[k].result))
       /\ attempts[k].outcome = "running" =>
            /\ k = Len(attempts)
            /\ chainPc \in AwaitsOf(k)
       /\ attempts[k].outcome = "declined" =>
            ~ProducesSegments(Val(attempts[k].result))
       /\ attempts[k].outcome = "returned" =>
            /\ k = Len(attempts)
            /\ chainPc = "settled"
            /\ ProducesSegments(Val(attempts[k].result))
            /\ chainResult = attempts[k].result

\* C1 witness: the third approach succeeded after the first two had declined.
C1_Witness ==
  /\ Len(attempts) = 3
  /\ attempts[1].outcome = "declined"
  /\ attempts[2].outcome = "declined"
  /\ attempts[3].outcome = "returned"
  /\ chainPc = "settled"

\* C2: a failure inside an approach is converted to a decline and the next
\* approach is attempted; a started acquisition fails only by the timeout or
\* after every approach has declined.
C2_FailuresFallThrough ==
  /\ \A k \in 1..Len(attempts) :
       (attempts[k].failed /\ attempts[k].outcome # "running") =>
         /\ attempts[k].outcome = "declined"
         /\ k < Len(approaches) => Len(attempts) > k
  /\ \A i \in 1..Len(response) :
       (~response[i].success /\ attempts # <<>>) =>
         \/ response[i].code = "TIMEOUT_ERROR"
         \/ AllDeclined /\ response[i].code = "NO_CAPTIONS"

\* C3: in production no approach, the chain or POST ever yields the
\* placeholder, and when every approach has declined the chain throws the
\* no-captions error, which POST answers with NO_CAPTIONS unless the timer
\* came first.
C3_NoPlaceholderInProduction ==
  nodeEnv = "production" =>
    /\ \A k \in 1..Len(attempts) :
         (~IsAbsent(attempts[k].result) /\ Val(attempts[k].result).ok) =>
           ~IsPlaceholder(Val(attempts[k].result).value)
    /\ (~IsAbsent(chainResult) /\ Val(chainResult).ok) =>
         ~IsPlaceholder(Val(chainResult).value)
    /\ \A i \in 1..Len(response) :
         response[i].success => ~IsPlaceholder(Val(response[i].data))
    /\ AllDeclined =>
         /\ chainPc = "settled"
         /\ chainResult = Some(NoCaptionsError)
         /\ timer = "armed" =>
              /\ Responded
              /\ ~response[1].success
              /\ response[1].code = "NO_CAPTIONS"

\* C3 witness: in production every approach declined and POST answered
\* NO_CAPTIONS.
C3_Witness ==
  /\ nodeEnv = "production"
  /\ AllDeclined
  /\ Responded
  /\ response[1].code = "NO_CAPTIONS"

\* C4: whenever POST returns the placeholder, every approach of the chain has
\* been attempted and has declined.
C4_PlaceholderOnlyAfterAllDeclined ==
  \A i \in 1..Len(response) :
    (response[i].success /\ IsPlaceholder(Val(response[i].data))) =>
      AllDeclined

\* C5 as stated: outside production, when every approach has declined the
\* chain's result is the placeholder with 5 segments and duration 17.
C5_PlaceholderOutsideProduction ==
  (nodeEnv # "production" /\ AllDeclined) =>
    /\ ~IsAbsent(chainResult)
    /\ Val(chainResult).ok
    /\ IsPlaceholder(Val(chainResult).value)
    /\ Len(Val(chainResult).value.segments) = 5
    /\ Val(chainResult).value.duration = Sec(17)

\* C5 amended: in development, when the chain has settled and every approach
\* it attempted failed inside, the result is the placeholder; every placeholder
\* has exactly 5 segments and duration 17 whatever the language; in the other
\* environments the chain throws the no-captions error once every approach has
\* declined.
C5_DevelopmentPlaceholder ==
  /\ (/\ nodeEnv = "development"
      /\ chainPc = "settled"
      /\ \A k \in 1..Len(attempts) : attempts[k].failed) =>
       /\ Val(chainResult).ok
       /\ IsPlaceholder(Val(chainResult).value)
  /\ (~IsAbsent(chainResult) /\ Val(chainResult).ok
        /\ IsPlaceholder(Val(chainResult).value)) =>
       /\ nodeEnv = "development"
       /\ Len(Val(chainResult).value.segments) = 5
       /\ Val(chainResult).value.duration = Sec(17)
  /\ (nodeEnv # "development" /\ AllDeclined) =>
       chainResult = Some(NoCaptionsError)

\* C5 witness: in development, with English preferred, the first approach
\* declined, every proxy service failed and POST returned the placeholder.
C5_Witness ==
  /\ nodeEnv = "development"
  /\ request.language = Some(EN)
  /\ chainPc = "settled"
  /\ \A k \in 1..Len(attempts) : attempts[k].failed
  /\ Responded
  /\ response[1].success
  /\ IsPlaceholder(Val(response[1].data))

\* The response is the timeout failure.
IsTimeoutFailure(r) == ~r.success /\ r.code = "TIMEOUT_ERROR"

\* The response is the chain's own outcome: its transcript, or NO_CAPTIONS
\* for its error.
IsChainOutcome(r) ==
  IF Val(chainResult).ok
  THEN r.success /\ r.data = Some(Val(chainResult).value)
  ELSE ~r.success /\ r.code = "NO_CAPTIONS"

\* C6: when the response exists while the chain is still suspended, the timer
\* came first and the response is the timeout failure; when the chain has
\* settled and the timer has not fired, the response is the chain's outcome;
\* and a response, once returned, is never changed by what happens later.
C6_TimeoutRace ==
  /\ [](/\ (postPc = "done" /\ chainPc \notin {"idle", "settled"}) =>
             (Responded /\ IsTimeoutFailure(response[1]))
        /\ (chainPc = "settled" /\ timer = "armed") =>
             (Responded /\ IsChainOutcome(response[1])
                /\ ~IsTimeoutFailure(response[1])))
  /\ [][response # <<>> => response' = response]_vars

\* C6 witness: the timer fired first, and the chain later settled with a
\* transcript; the response is still the timeout failure.
C6_Witness ==
  /\ timer = "fired"
  /\ chainPc = "settled"
  /\ Val(chainResult).ok
  /\ Responded
  /\ IsTimeoutFailure(response[1])

\* The string matches none of the identifier shapes.
MatchesNoShape(url) ==
  \A k \in 1..Len(patterns) : MatchStarts(url, patterns[k]) = {}

C8_SuccessHasSegments ==
  /\ \A i \in 1..Len(response) :
       response[i].success => Len(Val(response[i].data).segments) >= 1
  /\ (~IsAbsent(chainResult) /\ Val(chainResult).ok) =>
       Len(Val(chainResult).value.segments) >= 1
  /\ \A k \in 1..Len(attempts) :
       (~IsAbsent(attempts[k].result) /\ Val(attempts[k].result).ok) =>
         Len(Val(attempts[k].result).value.segments) >= 1

\* C8 witness: direct scraping, after payloads without segments had made the
\* earlier approaches decline, returned a transcript that POST sent.
C8_Witness ==
  /\ Len(attempts) = 3
  /\ attempts[3].outcome = "returned"
  /\ Responded
  /\ response[1].success
  /\ Len(Val(response[1].data).segments) >= 1

\* The codes of POST by the failure of the taxonomy they stand for
\* (VALIDATION_ERROR is counted as the boundary's form of InvalidInput).
CodeTaxonomy ==
  [c \in {"INVALID_URL", "VALIDATION_ERROR", "NO_CAPTIONS", "TIMEOUT_ERROR"}
     |-> CASE c = "INVALID_URL" -> "InvalidInput"
           [] c = "VALIDATION_ERROR" -> "InvalidInput"
           [] c = "NO_CAPTIONS" -> "NoCaptionsAvailable"
           [] c = "TIMEOUT_ERROR" -> "Timeout"]

\* C9: every failure POST returns carries a code of the taxonomy.
C9_FailuresAreClassified ==
  \A i \in 1..Len(response) :
    ~response[i].success => response[i].code \in DOMAIN CodeTaxonomy

\* C10: every failure POST returns includes a non-empty suggestion.
C10_FailuresCarrySuggestion ==
  \A i \in 1..Len(response) :
    ~response[i].success => StrTruthy(response[i].suggestion)

\* The characters that end an identifier in a URL.
IdDelimiters == {"&", "?", "#"}

\* C11: for each of the four shapes, every identifier and every suffix that is
\* empty or begins with '&', '?' or '#', extractVideoId returns exactly the
\* identifier.
C11_ExtractionStopsAtDelimiter ==
  \A i \in 1..Len(calls) :
    calls[i].fn = "extractVideoId" =>
      \A c \in UrlCases :
        (/\ calls[i].args = <<ShapedUrl(c)>>
         /\ c.suffix # <<>> => c.suffix[1] \in IdDelimiters) =>
          calls[i].result = Some(c.id)

\* A call of a strategy that obtains a track list.
IsSelection(call) ==
  call.fn \in {"fetchViaCustomAPI", "fetchViaDirectScraping"}

\* The index of the track the strategy went on to fetch.
Selected(call) ==
  CHOOSE k \in 1..Len(call.args[1]) : call.result.value.url = Some(String(k))

\* The tracks of the list in language `code`, manually authored or
\* auto-generated.
TracksOf(list, code, auto) ==
  {k \in 1..Len(list) : list[k].code = code /\ list[k].auto = auto}

\* C12: with a preferred language L the selected track is a manual track in
\* exactly L if one exists, else an auto-generated track in exactly L if one
\* exists, else the first listed track, for every ordering of the list.
C12_PreferredLanguageSelection ==
  \A i \in 1..Len(calls) :
    (IsSelection(calls[i]) /\ StrTruthy(calls[i].args[2])) =>
      LET list == calls[i].args[1]
          L == Val(calls[i].args[2])
      IN IF TracksOf(list, L, FALSE) # {}
         THEN Selected(calls[i]) \in TracksOf(list, L, FALSE)
         ELSE IF TracksOf(list, L, TRUE) # {}
         THEN Selected(calls[i]) \in TracksOf(list, L, TRUE)
         ELSE Selected(calls[i]) = 1

\* C13: without a preferred language the selected track is a manual track in
\* ja if one exists, else a manual track in en if one exists, else the first
\* listed track.
C13_DefaultLanguageSelection ==
  \A i \in 1..Len(calls) :
    (IsSelection(calls[i]) /\ ~StrTruthy(calls[i].args[2])) =>
      LET list == calls[i].args[1]
      IN IF TracksOf(list, JA, FALSE) # {}
         THEN Selected(calls[i]) \in TracksOf(list, JA, FALSE)
         ELSE IF TracksOf(list, EN, FALSE) # {}
         THEN Selected(calls[i]) \in TracksOf(list, EN, FALSE)
         ELSE Selected(calls[i]) = 1

\* The transcripts the approaches have returned and POST has sent.
ReturnedTranscripts ==
  {Val(attempts[k].result).value : k \in
     {j \in 1..Len(attempts) :
        ~IsAbsent(attempts[j].result) /\ Val(attempts[j].result).ok}}
  \cup {Val(response[i].data) : i \in
          {j \in 1..Len(response) : response[j].success}}

\* C14: the duration of every returned transcript, whichever approach
\* returned it, is the end of its last segment rounded up to a whole second.
C14_DurationIsCeilOfLastEnd ==
  \A t \in ReturnedTranscripts :
    Len(t.segments) > 0 =>
      t.duration = Ceil(t.segments[Len(t.segments)].end)

\* The calls that produce a segment sequence.
ProducesSegmentList(call) ==
  call.fn \in {"parseVTT", "parseTranscriptXML", "normalize"}

\* The cue has text besides white space.
HasText(c) == \E k \in 1..Len(c.lines) : Trim(c.lines[k]) # <<>>

\* The entries of a proxy service's JSON and the text of an entry.
EntriesOf(data) ==
  IF data.isArray THEN data.items
  ELSE IF ~IsAbsent(data.transcript) THEN Val(data.transcript)
  ELSE IF ~IsAbsent(data.segments) THEN Val(data.segments)
  ELSE <<>>
EntryText(e) ==
  IF StrTruthy(e.text) THEN Val(e.text)
  ELSE IF StrTruthy(e.content) THEN Val(e.content) ELSE <<>>

\* C15: in every segment sequence a parser or the normalizer produces, the
\* k-th segment has the decimal string of k for its id, also when entries of
\* the payload were dropped, and the segments are in the order of the payload
\* whatever their timestamps: the cues with text of a WebVTT payload, the text
\* nodes of a timed-markup payload, the entries of a proxy answer.
C15_IdsAreEmissionOrdinals ==
  \A i \in 1..Len(calls) :
    ProducesSegmentList(calls[i]) =>
      LET segs == calls[i].result IN
      /\ \A k \in 1..Len(segs) : segs[k].id = String(k)
      /\ calls[i].fn = "parseVTT" =>
           \A h \in VTTHeaders, cues \in VTTCueLists :
             calls[i].args = <<RenderVTT(h, cues)>> =>
               LET kept == SelectSeq(cues, HasText) IN
               /\ Len(segs) = Len(kept)
               /\ \A k \in 1..Len(kept) : segs[k].start = kept[k].start
      /\ calls[i].fn = "parseTranscriptXML" =>
           \A nodes \in XMLNodeLists :
             calls[i].args = <<RenderXML(nodes)>> =>
               /\ Len(segs) = Len(nodes)
               /\ \A k \in 1..Len(nodes) : segs[k].start = nodes[k].start
      /\ calls[i].fn = "normalize" =>
           LET entries == EntriesOf(calls[i].args[1]) IN
           /\ Len(segs) = Len(entries)
           /\ \A k \in 1..Len(entries) : segs[k].text = EntryText(entries[k])

\* C15 witness: parseVTT was called on a payload whose second cue is timed
\* before its first; both were emitted, in the order of the payload, with the
\* ids 1 and 2.
C15_Witness ==
  /\ Len(calls) = 1
  /\ calls[1].fn = "parseVTT"
  /\ Len(calls[1].result) = 2
  /\ calls[1].result[2].start < calls[1].result[1].start
  /\ calls[1].result[1].id = <<"1">>
  /\ calls[1].result[2].id = <<"2">>

\* C16: no segment of a returned transcript has a text that is empty after
\* trimming.
C16_NoEmptySegmentText ==
  \A t \in ReturnedTranscripts :
    \A k \in 1..Len(t.segments) : Trim(t.segments[k].text) # <<>>

\* C17: every segment of a returned transcript has start >= 0 and
\* end >= start (a comparison with NaN is false).
C17_SegmentTimesOrdered ==
  \A t \in ReturnedTranscripts :
    \A k \in 1..Len(t.segments) :
      /\ ~IsNaN(t.segments[k].start)
      /\ ~IsNaN(t.segments[k].end)
      /\ t.segments[k].start >= 0
      /\ t.segments[k].end >= t.segments[k].start

RECURSIVE JoinLines(_)
\* The lines, each trimmed, joined by single spaces.
JoinLines(lines) ==
  IF Len(lines) = 0 THEN <<>>
  ELSE IF Len(lines) = 1 THEN Trim(lines[1])
  ELSE Trim(lines[1]) \o <<" ">> \o JoinLines(Tail(lines))

\* C18: parseVTT skips the header block, whatever it holds, and emits for each
\* timing line 'start --> end' (hh:mm:ss.mmm or mm:ss.mmm) that is followed by
\* text one segment with those times in seconds and with the lines up to the
\* next blank line, trimmed and joined by single spaces, for its text; the
\* payload WEBVTT / 00:00:01.000 --> 00:00:02.500 / Hello / World yields
\* exactly one segment with start 1, end 2.5 and text 'Hello World'.
C18_CueTextParser ==
  \A i \in 1..Len(calls) :
    calls[i].fn = "parseVTT" =>
      /\ calls[i].args = <<VTT_EXAMPLE>> =>
           calls[i].result =
             << Segment(<<"1">>, 1000, 2500,
                        <<"H","e","l","l","o"," ","W","o","r","l","d">>) >>
      /\ \A h \in VTTHeaders, cues \in VTTCueLists :
           calls[i].args = <<RenderVTT(h, cues)>> =>
             LET kept == SelectSeq(cues, HasText) IN
             calls[i].result =
               [k \in 1..Len(kept) |->
                  Segment(String(k), kept[k].start, kept[k].end,
                          JoinLines(kept[k].lines))]

\* C18 witness: parseVTT was called on the payload of the example and
\* returned one segment from 1 s to 2.5 s.
C18_Witness ==
  /\ Len(calls) = 1
  /\ calls[1].fn = "parseVTT"
  /\ calls[1].args = <<VTT_EXAMPLE>>
  /\ Len(calls[1].result) = 1
  /\ calls[1].result[1].start = 1000
  /\ calls[1].result[1].end = 2500

\* The five entities and the characters they stand for.
Entities ==
  << [from |-> AMP, to |-> "&"], [from |-> LT, to |-> "<"],
     [from |-> GT, to |-> ">"], [from |-> QUOT, to |-> "\""],
     [from |-> APOS, to |-> "'"] >>

RECURSIVE UnescapeOnce(_)
\* The text with each entity unescaped exactly once, in one pass from left to
\* right, and each newline replaced by a space.
UnescapeOnce(raw) ==
  IF Len(raw) = 0 THEN <<>>
  ELSE LET hits == {k \in 1..Len(Entities) : MatchesAt(raw, 1, Entities[k].from)}
       IN IF hits # {}
          THEN LET e == Entities[CHOOSE k \in hits : TRUE] IN
               <<e.to>> \o UnescapeOnce(SubSeq(raw, Len(e.from) + 1, Len(raw)))
          ELSE <<IF Head(raw) = "\n" THEN " " ELSE Head(raw)>>
               \o UnescapeOnce(Tail(raw))

\* C19: parseTranscriptXML emits for each text node, in document order, a
\* segment with start the node's start attribute, end start + dur, and text
\* the node's content with newlines replaced by spaces and each entity
\* unescaped exactly once, trimmed; '<text start="1.0" dur="2.0">A &amp;
\* B</text>' gives start 1, end 3 and text 'A & B'.
C19_TimedMarkupParser ==
  \A i \in 1..Len(calls) :
    calls[i].fn = "parseTranscriptXML" =>
      /\ calls[i].args = <<XML_EXAMPLE>> =>
           calls[i].result =
             << Segment(<<"1">>, 1000, 3000, <<"A"," ","&"," ","B">>) >>
      /\ \A nodes \in XMLNodeLists :
           calls[i].args = <<RenderXML(nodes)>> =>
             calls[i].result =
               [k \in 1..Len(nodes) |->
                  Segment(String(k), nodes[k].start,
                          nodes[k].start + nodes[k].dur,
                          Trim(UnescapeOnce(nodes[k].raw)))]

C21_AcquisitionIsDecided == (postPc = "race") ~> Responded

\* The timer has decided an acquisition whose chain is still waiting for an
\* upstream answer.
C21_Witness ==
  /\ Responded
  /\ IsTimeoutFailure(response[1])
  /\ chainPc \in {"custom:streams", "custom:subtitle", "proxy:service",
                  "scrape:page", "scrape:caption"}

\* C22: an acquisition has exactly one outcome. POST never holds more than
\* one response, the response is either the transcript or a failure and
\* never both, and once POST has answered neither a later completion of the
\* chain nor a later firing of the timer changes the answer or adds one.
C22_ExactlyOneOutcome ==
  /\ [](Len(response) <= 1)
  /\ [](postPc = "done" <=> Len(response) = 1)
  /\ [](Responded =>
          (response[1].success <=> ~IsAbsent(response[1].data))
          /\ (response[1].success <=> response[1].code = ""))
  /\ [][postPc = "done" => postPc' = "done" /\ response' = response]_vars

\* The chain decided the race with a transcript and the timer fired
\* afterwards.
C22_Witness ==
  /\ Responded
  /\ response[1].success
  /\ timer = "fired"
  /\ chainPc = "settled"

\* The first of two optional numbers that is present, zero included.
FirstPresent(a, b) ==
  IF ~IsAbsent(a) THEN Val(a) ELSE IF ~IsAbsent(b) THEN Val(b) ELSE 0

\* The answer has the array shape or the data.transcript shape, whose items
\* are read for start, offset, end, duration and dur.
ReadsOffsetAndDur(data) == data.isArray \/ ~IsAbsent(data.transcript)

\* C23: in the proxy normalizer a segment's start is the item's start
\* whenever it is present, zero included, and its offset only when start is
\* absent; its end is the item's end whenever it is present, zero included,
\* and otherwise the start plus the item's duration, dur being used only when
\* duration is absent. A zero is never treated as missing.
C23_ZeroIsNotMissing ==
  \A i \in 1..Len(calls) :
    (calls[i].fn = "normalize" /\ ReadsOffsetAndDur(calls[i].args[1])) =>
      LET entries == EntriesOf(calls[i].args[1])
          segs == calls[i].result
      IN \A k \in 1..Len(entries) :
           LET e == entries[k]
               start == FirstPresent(e.start, e.offset)
           IN /\ segs[k].start = start
              /\ segs[k].end =
                   IF ~IsAbsent(e.end) THEN Val(e.end)
                   ELSE Plus(start, FirstPresent(e.duration, e.dur))

\* C25: once POST has answered with the timeout failure the chain is
\* abandoned: from then on no approach is started and no outbound call is
\* issued for the request.
C25_ChainAbandonedAfterTimeout ==
  [][(Responded /\ IsTimeoutFailure(response[1])) =>
       (Len(attempts') = Len(attempts) /\ Len(netLog') = Len(netLog))]_vars

\* C26: the form's extractor and the server's extractVideoId agree on every
\* URL string, both finding no identifier or both the same one, so that a
\* URL the form accepts and submits is never answered INVALID_URL by POST.
C26_FormAndServerAgree ==
  \A i \in 1..Len(calls) :
    /\ calls[i].fn = "URLInput.extractVideoId" =>
         calls[i].result = extractVideoId(calls[i].args[1])
    /\ (calls[i].fn = "handleSubmit" /\ ~IsAbsent(calls[i].result)) =>
         LET body == Val(calls[i].result) IN
         ~(IsWellFormedUrl(body.url) /\ ~StrTruthy(extractVideoId(body.url)))

\* C27: when POST answers a transcript request with a classified failure
\* (success false, with code and message, under status 400 or 500), the error
\* useTranscript returns is the message of that failure, not an error made
\* from the HTTP status.
C27_HookCarriesServerMessage ==
  \A i \in 1..Len(calls) :
    calls[i].fn = "generateTranscript" =>
      LET resp == calls[i].args[1] IN
      (~resp.success /\ resp.status \in {400, 500}) =>
        /\ calls[i].result.isError
        /\ calls[i].result.error = Some(resp.message)
        /\ calls[i].result.error # Some(HttpErrorMessage(resp.status))

====
